---- MODULE Spec2Model ----
(***************************************************************************)
(* Model of the spaced-repetition service: the SM-2 scheduler              *)
(* (calculateSM2), the card store (decks, cards, review_history tables)    *)
(* and the request handlers that read and write the scheduling fields.     *)
(*                                                                         *)
(* Number representation.  JavaScript numbers are modelled in fixed point: *)
(*   - an ease factor e is the integer 100 * e (2.5 is 250, 1.3 is 130);   *)
(*     every term of the SM-2 update is a multiple of 0.02, so the values  *)
(*     are exact in hundredths.  The IEEE-754 rounding error of the        *)
(*     original (below 1e-15) is not represented.                          *)
(*   - a quality q is the integer QScale * q, so that fractional           *)
(*     qualities (2.5, 4.75, ...) are inputs of the model.                 *)
(*   - intervals and repetitions are integers, as in the code.             *)
(* Instants are clock ticks, TicksPerDay ticks to a calendar day.          *)
(***************************************************************************)
EXTENDS Integers, Sequences, FiniteSets, TLC

(***************************************************************************)
(* Bounds of the model                                                     *)
(***************************************************************************)
QScale == 4           \* a quality is given in units of 1/QScale
MaxInterval == 12     \* largest prior interval fed to the scheduler
MaxRepetitions == 3   \* largest prior repetitions fed to the scheduler
MaxCalls == 3         \* longest chain of scheduler calls
MaxEaseFactor == 300  \* largest prior ease factor (3.0) drawn as an input
MaxRows == 5          \* rows ever inserted (decks + cards + reviews)
MaxTime == 1          \* last clock tick
TicksPerDay == 2      \* clock ticks in a calendar day
MaxDueRows == 4       \* rows ever inserted, in the runs over several days
MaxDueTime == 3       \* last clock tick, in the runs over several days
MaxStatsRows == 6     \* rows ever inserted, in the runs of a single user
MaxStatsTime == 2     \* last clock tick, in the runs of a single user
MaxDeleteRows == 4    \* rows ever inserted, in the runs with deletions
MaxImport == 50       \* cards of the large import
MaxImportRows == 1    \* rows per table beside the large import
MaxRaceRows == 4      \* rows of all tables, runs with requests in flight
MaxRequests == 2      \* POST /submit requests of a run with requests in flight

(***************************************************************************)
(* Program constants                                                       *)
(***************************************************************************)
MinEaseFactor == 130      \* 1.3, the floor of the ease factor
DefaultEaseFactor == 250  \* 2.5, cards.ease_factor DEFAULT
DefaultInterval == 0      \* cards.interval DEFAULT
DefaultRepetitions == 0   \* cards.repetitions DEFAULT
DueLimit == 50            \* LIMIT 50 of the due-cards query
ReviewHistoryLimit == 50  \* LIMIT 50 of the review-history query
UpcomingDays == 7         \* date('now', '+7 days') of the upcoming query

Max(a, b) == IF a >= b THEN a ELSE b
Min(a, b) == IF a <= b THEN a ELSE b

(***************************************************************************)
(* Math.round(n / d) for d > 0: the nearest integer, a tie going up        *)
(* (towards +Infinity), i.e. floor(n/d + 1/2).                             *)
(***************************************************************************)
MathRound(n, d) == (2 * n + d) \div (2 * d)

(***************************************************************************)
(* calculateSM2, line 30:                                                  *)
(*   quality = Math.max(0, Math.min(5, Math.round(quality)))               *)
(* The argument is a scaled quality, the result an integer in 0..5.        *)
(***************************************************************************)
ClampNoBounds(quality) == MathRound(quality, QScale)

ClampQuality(quality) == Max(0, Min(5, MathRound(quality, QScale)))

(***************************************************************************)
(* calculateSM2, lines 36-50: the interval branch.  q is the clamped       *)
(* quality; easeFactor, interval, repetitions are the PRIOR values.        *)
(***************************************************************************)
NewIntervalKeep(q, easeFactor, interval, repetitions) ==
    IF q < 3 THEN interval
    ELSE IF repetitions = 0 THEN 1
    ELSE IF repetitions = 1 THEN 6
    ELSE MathRound(interval * easeFactor, 100)

NewIntervalFirstSix(q, easeFactor, interval, repetitions) ==
    IF q < 3 THEN 1
    ELSE IF repetitions = 0 THEN 6
    ELSE IF repetitions = 1 THEN 6
    ELSE MathRound(interval * easeFactor, 100)

NewIntervalSecondOne(q, easeFactor, interval, repetitions) ==
    IF q < 3 THEN 1
    ELSE IF repetitions = 0 THEN 1
    ELSE IF repetitions = 1 THEN 1
    ELSE MathRound(interval * easeFactor, 100)

NewIntervalUpdatedEase(q, easeFactor, interval, repetitions) ==
    IF q < 3 THEN 1
    ELSE IF repetitions = 0 THEN 1
    ELSE IF repetitions = 1 THEN 6
    ELSE MathRound(interval *
           Max(MinEaseFactor, easeFactor + (10 - (5 - q) * (8 + (5 - q) * 2))),
           100)

NewIntervalFloored(q, easeFactor, interval, repetitions) ==
    IF q < 3 THEN 1
    ELSE IF repetitions = 0 THEN 1
    ELSE IF repetitions = 1 THEN 6
    ELSE (interval * easeFactor) \div 100

NewInterval(q, easeFactor, interval, repetitions) ==
    IF q < 3 THEN 1
    ELSE IF repetitions = 0 THEN 1
    ELSE IF repetitions = 1 THEN 6
    ELSE MathRound(interval * easeFactor, 100)

(***************************************************************************)
(* calculateSM2, lines 36-50: the repetition counter.                      *)
(***************************************************************************)
NewRepetitionsNoReset(q, repetitions) ==
    IF q < 3 THEN repetitions ELSE repetitions + 1

NewRepetitionsDecrement(q, repetitions) ==
    IF q < 3 THEN repetitions - 1 ELSE repetitions + 1

NewRepetitions(q, repetitions) ==
    IF q < 3 THEN 0 ELSE repetitions + 1

(***************************************************************************)
(* calculateSM2, line 53: the ease-factor increment, in hundredths:        *)
(*   0.1 - (5 - quality) * (0.08 + (5 - quality) * 0.02)                   *)
(***************************************************************************)
EaseDeltaLinear(q) == 10 - (5 - q) * 8

EaseDeltaFolded(q) == 10 - (5 - q) * (8 - (5 - q) * 2)

EaseDelta(q) == 10 - (5 - q) * (8 + (5 - q) * 2)

(***************************************************************************)
(* calculateSM2, lines 55-58: the floor of the ease factor.                *)
(***************************************************************************)
FloorEaseNone(e) == e

FloorEase(e) == IF e < MinEaseFactor THEN MinEaseFactor ELSE e

(***************************************************************************)
(* calculateSM2(quality, easeFactor, interval, repetitions)                *)
(***************************************************************************)
calculateSM2(quality, easeFactor, interval, repetitions) ==
    LET q == ClampQuality(quality)
    IN  [easeFactor  |-> FloorEase(easeFactor + EaseDelta(q)),
         interval    |-> NewInterval(q, easeFactor, interval, repetitions),
         repetitions |-> NewRepetitions(q, repetitions)]

(***************************************************************************)
(* calculateNextInterval(card, quality) of the review page: the interval   *)
(* shown on the buttons 'Again' (quality 1), 'Hard' (3) and 'Good' (5).    *)
(* quality is the integer the button submits; ef is in hundredths.         *)
(***************************************************************************)
calculateNextInterval(ease_factor, interval, repetitions, quality) ==
    LET adjusted == ease_factor
                        + (10 - (5 - quality) * (8 + (5 - quality) * 2))
        ef == IF adjusted < 130 THEN 130 ELSE adjusted
    IN  IF quality < 3 THEN 1
        ELSE IF repetitions = 0 THEN 1
        ELSE IF repetitions = 1 THEN 6
        ELSE MathRound(interval * ef, 100)

\* the qualities the buttons of review mode submit: Again, Hard, Good
ReviewChoices == {1, 3, 5}

(***************************************************************************)
(* State                                                                   *)
(***************************************************************************)
VARIABLES
    decks,           \* table decks: row d is the deck with id d
    cards,           \* table cards: row c is the card with id c
    review_history,  \* table review_history, in insertion order
    now,             \* the clock, in ticks
    call,      \* arguments of the scheduler call under way, or NoCall
    result,    \* what calculateSM2 returned for `call`, or NoResult
    ncalls,    \* number of calls made in the current chain
    origin,    \* "new": the chain started from a new card's defaults
    scope,     \* which bounds the run explores under; never changes
    requests   \* the POST /submit requests of the run, in order of arrival:
               \* the local variables and the position of each handler

dbvars == <<decks, cards, review_history, now>>

sm2vars == <<call, result, ncalls, origin, scope, requests>>

vars == <<decks, cards, review_history, now, call, result, ncalls, origin,
          scope, requests>>

NoCall == [quality |-> 0, easeFactor |-> 0, interval |-> -1, repetitions |-> -1]
NoResult == [easeFactor |-> 0, interval |-> -1, repetitions |-> -1]

(***************************************************************************)
(* The scheduler on its own: SpecSM2 draws the arguments of calculateSM2   *)
(* from bounded sets, applies it, and feeds the result back with a further *)
(* quality, as a caller does that reviews one card again and again.        *)
(***************************************************************************)
QualityInputs == (-QScale) .. (6 * QScale)

EaseInputs == {e \in 100 .. MaxEaseFactor : e % 10 = 0} \cup {136, 218}

InitSM2 ==
    /\ call \in [quality : QualityInputs, easeFactor : EaseInputs,
                 interval : 0 .. MaxInterval, repetitions : 0 .. MaxRepetitions]
    /\ result = NoResult
    /\ ncalls = 0
    /\ decks = << >> /\ cards = << >> /\ review_history = << >>
    /\ now = 0
    /\ origin = IF /\ call.easeFactor = DefaultEaseFactor
                   /\ call.interval = DefaultInterval
                   /\ call.repetitions = DefaultRepetitions
                THEN "new" ELSE "any"
    /\ scope = "sm2"
    /\ requests = << >>

\* one call: result = calculateSM2(quality, easeFactor, interval, repetitions)
Advance ==
    /\ call # NoCall
    /\ result = NoResult
    /\ result' = calculateSM2(call.quality, call.easeFactor,
                              call.interval, call.repetitions)
    /\ ncalls' = ncalls + 1
    /\ UNCHANGED <<call, origin, scope, requests>>
    /\ UNCHANGED dbvars

\* the caller stores the result and reviews again with quality q
Repeat(q) ==
    /\ result # NoResult
    /\ ncalls < MaxCalls
    /\ result.interval <= MaxInterval
    /\ result.repetitions <= MaxRepetitions
    /\ call' = [quality |-> q, easeFactor |-> result.easeFactor,
                interval |-> result.interval,
                repetitions |-> result.repetitions]
    /\ result' = NoResult
    /\ UNCHANGED <<ncalls, origin, scope, requests>>
    /\ UNCHANGED dbvars

NextSM2 ==
    \/ Advance
    \/ \E q \in QualityInputs : Repeat(q)

SpecSM2 == InitSM2 /\ [][NextSM2]_vars

(***************************************************************************)
(* The service.  Requests arrive from authenticated users (requireAuth has *)
(* set c.get("user")); a JSON body field is a number or is absent.         *)
(***************************************************************************)
Users == {"u1", "u2"}

Contents == {"", "a", "b"}    \* a blank and two non-blank front/back texts

Undefined == [type |-> "undefined", v |-> 0]
Number(n) == [type |-> "number", v |-> n]

\* qualities a client submits: -1, 0, 2.5, 5, just above 5
SubmitQualities ==
    {-QScale, 0, (5 * QScale) \div 2, 5 * QScale, 5 * QScale + 1}

\* ids a request may name: every row's id and one that no row has (after a
\* large import: the first card, the last card, and one that no row has)
DeckIds == 1 .. Len(decks) + 1
CardIds ==
    IF Len(cards) < MaxImport THEN 1 .. Len(cards) + 1
    ELSE {1, Len(cards), Len(cards) + 1}

\* rows inserted so far (AUTOINCREMENT ids are never reused)
Rows == Len(decks) + Len(cards) + Len(review_history)

\* The bounds of a run.  "service": MaxRows rows within MaxTime ticks;
\* "due": MaxDueRows rows within MaxDueTime ticks (several days);
\* "delete": MaxDeleteRows rows within MaxTime ticks, with deletions of
\* decks and cards;
\* "stats": MaxStatsRows rows within MaxStatsTime ticks, all requests from
\* one user and no card edited to another text (so also in "race");
\* "import": one import of MaxImport cards beside MaxImportRows rows per
\* table, within MaxDueTime ticks;
\* "race": MaxRaceRows rows within one tick, written by MaxRequests
\* POST /submit requests whose handlers interleave.
TimeLimit ==
    CASE scope = "service" -> MaxTime
      [] scope = "delete" -> MaxTime
      [] scope = "stats" -> MaxStatsTime
      [] OTHER -> MaxDueTime

RowLimit ==
    CASE scope = "due" -> MaxDueRows
      [] scope = "delete" -> MaxDeleteRows
      [] scope = "race" -> MaxRaceRows
      [] scope = "stats" -> MaxStatsRows
      [] OTHER -> MaxRows

\* The ids delete requests name: any id in the runs with deletions, only
\* an id that no row has in the other runs
DeleteCardIds == IF scope = "delete" THEN CardIds ELSE {Len(cards) + 1}
DeleteDeckIds == IF scope = "delete" THEN DeckIds ELSE {Len(decks) + 1}

\* the users who send requests, and the texts they send
ActiveUsers == IF scope \in {"stats", "race"} THEN {"u1"} ELSE Users
Texts == IF scope \in {"stats", "race"} THEN {"", "a"} ELSE Contents

\* may the run insert n more rows into table?
Room(table, n) ==
    IF scope = "import"
    THEN CASE table = "decks" -> Len(decks) + n <= MaxImportRows
           [] table = "cards" ->
                IF n < MaxImport THEN Len(cards) + n <= MaxImportRows
                ELSE Len(cards) <= MaxImportRows
           [] table = "review_history" ->
                Len(review_history) + n <= MaxImportRows
    ELSE Rows + n <= RowLimit

\* a timestamp as stored: the instant and the text format it is written in
\*   "sql": datetime('now')        'YYYY-MM-DD HH:MM:SS'
\*   "iso": Date.toISOString()     'YYYY-MM-DDTHH:MM:SS.sssZ'
SqlNow == [t |-> now, fmt |-> "sql"]

\* a due date that forgets the interval
DueDateNoInterval(interval) == [t |-> now, fmt |-> "iso"]

\* new Date(); setDate(getDate() + interval); toISOString()
DueDate(interval) == [t |-> now + interval * TicksPerDay, fmt |-> "iso"]

Init ==
    /\ decks = << >>
    /\ cards = << >>
    /\ review_history = << >>
    /\ now = 0
    /\ call = NoCall /\ result = NoResult /\ ncalls = 0 /\ origin = "any"
    /\ scope = "service"
    /\ requests = << >>

\* time passes
Tick ==
    /\ now < TimeLimit
    /\ now' = now + 1
    /\ UNCHANGED <<decks, cards, review_history>>
    /\ UNCHANGED sm2vars

\* decks.post("/"): the status of the response
CreateDeckStatus(user, name) ==
    IF name = "" THEN 400 ELSE 201

\* decks.post("/")
CreateDeck(user, name) ==
    /\ IF CreateDeckStatus(user, name) = 201
       THEN /\ Room("decks", 1)
            /\ decks' = Append(decks, [user_id |-> user])
       ELSE UNCHANGED decks
    /\ UNCHANGED <<cards, review_history, now>>
    /\ UNCHANGED sm2vars

\* A table is the sequence of the rows ever inserted, row i having id i
\* (AUTOINCREMENT never reuses an id); a deleted row leaves a blank entry
\* that belongs to no user, no deck and no card.
NoDeck == [user_id |-> ""]
NoCard ==
    [deck_id |-> 0, front |-> "",
     ease_factor |-> DefaultEaseFactor, interval |-> DefaultInterval,
     repetitions |-> DefaultRepetitions, due_date |-> [t |-> 0, fmt |-> "sql"]]
NoReview == [card_id |-> 0, quality |-> 0, ease_factor |-> 0, interval |-> 0]

\* the ids of the rows the tables hold
DeckRows == {d \in DOMAIN decks : decks[d] # NoDeck}
CardRows == {c \in DOMAIN cards : cards[c] # NoCard}
ReviewRows == {i \in DOMAIN review_history : review_history[i] # NoReview}

\* ON DELETE CASCADE: the tables after the cards gone are deleted, with
\* their review_history rows
WithoutCards(gone) ==
    [i \in DOMAIN cards |-> IF i \in gone THEN NoCard ELSE cards[i]]
WithoutReviewsOf(gone) ==
    [i \in DOMAIN review_history |->
        IF review_history[i].card_id \in gone THEN NoReview
        ELSE review_history[i]]

\* decks.delete("/:id"): the status of the response
DeleteDeckStatus(user, deckId) ==
    IF deckId \in DOMAIN decks /\ decks[deckId].user_id = user
    THEN 200 ELSE 404

\* a delete of the decks row alone, without the cascade
DeleteDeckNoCascade(user, deckId) ==
    /\ IF DeleteDeckStatus(user, deckId) = 200
       THEN /\ decks' = [decks EXCEPT ![deckId] = NoDeck]
            /\ UNCHANGED <<cards, review_history>>
       ELSE UNCHANGED <<decks, cards, review_history>>
    /\ UNCHANGED now
    /\ UNCHANGED sm2vars

\* decks.delete("/:id"): DELETE FROM decks WHERE id = ? AND user_id = ?
DeleteDeck(user, deckId) ==
    /\ IF DeleteDeckStatus(user, deckId) = 200
       THEN LET gone == {c \in DOMAIN cards : cards[c].deck_id = deckId}
            IN  /\ decks' = [decks EXCEPT ![deckId] = NoDeck]
                /\ cards' = WithoutCards(gone)
                /\ review_history' = WithoutReviewsOf(gone)
       ELSE UNCHANGED <<decks, cards, review_history>>
    /\ UNCHANGED now
    /\ UNCHANGED sm2vars

\* SELECT id FROM decks WHERE id = ? AND user_id = ?
verifyDeckOwnership(deckId, userId) ==
    deckId \in DOMAIN decks /\ decks[deckId].user_id = userId

\* a lookup that does not look at the owner of the deck
OwnedCardAnyUser(cardId, userId) ==
    /\ cardId \in DOMAIN cards
    /\ cards[cardId].deck_id \in DOMAIN decks

\* SELECT c.* FROM cards c JOIN decks d ON c.deck_id = d.id
\*  WHERE c.id = ? AND d.user_id = ?
OwnedCard(cardId, userId) ==
    /\ cardId \in DOMAIN cards
    /\ cards[cardId].deck_id \in DOMAIN decks
    /\ decks[cards[cardId].deck_id].user_id = userId

\* a row whose due date is a day after the insert
NewCardDueTomorrow(deckId, content) ==
    [deck_id |-> deckId, front |-> content,
     ease_factor |-> DefaultEaseFactor, interval |-> DefaultInterval,
     repetitions |-> DefaultRepetitions,
     due_date |-> [t |-> now + TicksPerDay, fmt |-> "sql"]]

\* the row INSERT INTO cards (deck_id, front, back, due_date) creates
NewCard(deckId, content) ==
    [deck_id |-> deckId, front |-> content,
     ease_factor |-> DefaultEaseFactor, interval |-> DefaultInterval,
     repetitions |-> DefaultRepetitions, due_date |-> SqlNow]

\* cards.post("/deck/:deckId"): the status of the response
CreateCardStatus(user, deckId, content) ==
    IF ~verifyDeckOwnership(deckId, user) THEN 404
    ELSE IF content = "" THEN 400
    ELSE 201

\* cards.post("/deck/:deckId")
CreateCard(user, deckId, content) ==
    /\ IF CreateCardStatus(user, deckId, content) = 201
       THEN /\ Room("cards", 1)
            /\ cards' = Append(cards, NewCard(deckId, content))
       ELSE UNCHANGED cards
    /\ UNCHANGED <<decks, review_history, now>>
    /\ UNCHANGED sm2vars

\* cards.post("/deck/:deckId/import"): the status of the response; n is the
\* number of cards parseHashcards finds in the content (0 for a blank one)
ImportStatus(user, deckId, n) ==
    IF ~verifyDeckOwnership(deckId, user) THEN 404
    ELSE IF n = 0 THEN 400
    ELSE 201

\* cards.post("/deck/:deckId/import"): one INSERT per parsed card
Import(user, deckId, n) ==
    /\ IF ImportStatus(user, deckId, n) = 201
       THEN /\ Room("cards", n)
            /\ cards' = cards \o [i \in 1 .. n |-> NewCard(deckId, "a")]
       ELSE UNCHANGED cards
    /\ UNCHANGED <<decks, review_history, now>>
    /\ UNCHANGED sm2vars

\* cards.delete("/:id"): the status of the response
DeleteCardStatus(user, cardId) ==
    IF /\ cardId \in DOMAIN cards
       /\ cards[cardId].deck_id \in DOMAIN decks
       /\ decks[cards[cardId].deck_id].user_id = user
    THEN 200 ELSE 404

\* cards.delete("/:id"): DELETE FROM cards WHERE id = ? AND deck_id IN
\*  (SELECT id FROM decks WHERE user_id = ?)
DeleteCard(user, cardId) ==
    /\ IF DeleteCardStatus(user, cardId) = 200
       THEN /\ cards' = WithoutCards({cardId})
            /\ review_history' = WithoutReviewsOf({cardId})
       ELSE UNCHANGED <<cards, review_history>>
    /\ UNCHANGED <<decks, now>>
    /\ UNCHANGED sm2vars

\* cards.put("/:id"): the status of the response
UpdateCardStatus(user, cardId, content) ==
    IF ~OwnedCard(cardId, user) THEN 404
    ELSE IF content = "" THEN 400
    ELSE 200

\* an update that writes the whole row afresh
UpdateCardResets(user, cardId, content) ==
    /\ IF UpdateCardStatus(user, cardId, content) = 200
       THEN cards' = [cards EXCEPT ![cardId] =
                         NewCard(cards[cardId].deck_id, content)]
       ELSE UNCHANGED cards
    /\ UNCHANGED <<decks, review_history, now>>
    /\ UNCHANGED sm2vars

\* cards.put("/:id")
UpdateCard(user, cardId, content) ==
    /\ IF UpdateCardStatus(user, cardId, content) = 200
       THEN cards' = [cards EXCEPT ![cardId].front = content]
       ELSE UNCHANGED cards
    /\ UNCHANGED <<decks, review_history, now>>
    /\ UNCHANGED sm2vars

\* a validation without the range check: the value goes on to the clamp
SubmitStatusNoRange(user, cardId, quality) ==
    IF cardId.type # "number" \/ quality.type # "number" THEN 400
    ELSE IF ~OwnedCard(cardId.v, user) THEN 404
    ELSE 200

\* review.post("/submit"): the status of the response
SubmitStatus(user, cardId, quality) ==
    IF cardId.type # "number" \/ quality.type # "number" THEN 400
    ELSE IF quality.v < 0 \/ quality.v > 5 * QScale THEN 400
    ELSE IF ~OwnedCard(cardId.v, user) THEN 404
    ELSE 200

\* review.post("/submit"): the error text of the response ("" with 200)
SubmitError(user, cardId, quality) ==
    IF cardId.type # "number" \/ quality.type # "number"
    THEN "cardId and quality are required"
    ELSE IF quality.v < 0 \/ quality.v > 5 * QScale
    THEN "Quality must be between 0 and 5"
    ELSE IF ~OwnedCard(cardId.v, user) THEN "Card not found"
    ELSE ""

\* a submit that records the ease factor and interval it read
SubmitRecordsPrior(user, cardId, quality) ==
    /\ IF SubmitStatus(user, cardId, quality) = 200
       THEN LET card == cards[cardId.v]
                r == calculateSM2(quality.v, card.ease_factor,
                                  card.interval, card.repetitions)
            IN  /\ Room("review_history", 1)
                /\ cards' = [cards EXCEPT ![cardId.v] =
                       [@ EXCEPT !.ease_factor = r.easeFactor,
                                 !.interval = r.interval,
                                 !.repetitions = r.repetitions,
                                 !.due_date = DueDate(r.interval)]]
                /\ review_history' = Append(review_history,
                       [card_id |-> cardId.v, quality |-> quality.v,
                        ease_factor |-> card.ease_factor,
                        interval |-> card.interval])
       ELSE UNCHANGED <<cards, review_history>>
    /\ UNCHANGED <<decks, now>>
    /\ UNCHANGED sm2vars

\* review.post("/submit")
Submit(user, cardId, quality) ==
    /\ IF SubmitStatus(user, cardId, quality) = 200
       THEN LET card == cards[cardId.v]
                r == calculateSM2(quality.v, card.ease_factor,
                                  card.interval, card.repetitions)
            IN  /\ Room("review_history", 1)
                /\ cards' = [cards EXCEPT ![cardId.v] =
                       [@ EXCEPT !.ease_factor = r.easeFactor,
                                 !.interval = r.interval,
                                 !.repetitions = r.repetitions,
                                 !.due_date = DueDate(r.interval)]]
                /\ review_history' = Append(review_history,
                       [card_id |-> cardId.v, quality |-> quality.v,
                        ease_factor |-> r.easeFactor,
                        interval |-> r.interval])
       ELSE UNCHANGED <<cards, review_history>>
    /\ UNCHANGED <<decks, now>>
    /\ UNCHANGED sm2vars

(***************************************************************************)
(* The queries.  A stored due_date is text; date(due_date) reads its       *)
(* calendar date in either format, ORDER BY compares the text itself.      *)
(***************************************************************************)
\* date(ts): the calendar day of a stored timestamp
DateOf(ts) == ts.t \div TicksPerDay

\* the time of day of a stored timestamp
TimeOf(ts) == ts.t % TicksPerDay

\* date('now')
Today == now \div TicksPerDay

\* a < b as SQLite compares the two texts: the date (the first 10
\* characters), then the separator (' ' of "sql" is below 'T' of "iso"),
\* then the time of day
TextBefore(a, b) ==
    \/ DateOf(a) < DateOf(b)
    \/ /\ DateOf(a) = DateOf(b)
       /\ \/ a.fmt = "sql" /\ b.fmt = "iso"
          \/ a.fmt = b.fmt /\ TimeOf(a) < TimeOf(b)

\* the deckId query parameters a request carries: none, or a deck id
DeckFilters == {Undefined} \cup {Number(d) : d \in DeckIds}

\* a selection that ignores the deckId parameter
CandidatesNoFilter(user, deckId) ==
    {c \in DOMAIN cards :
        /\ cards[c].deck_id \in DOMAIN decks
        /\ decks[cards[c].deck_id].user_id = user}

\* a selection that takes a named deck without looking at its owner
CandidatesAnyOwner(user, deckId) ==
    {c \in DOMAIN cards :
        /\ cards[c].deck_id \in DOMAIN decks
        /\ IF deckId.type = "number" THEN cards[c].deck_id = deckId.v
           ELSE decks[cards[c].deck_id].user_id = user}

\* FROM cards c JOIN decks d ON c.deck_id = d.id WHERE d.user_id = ?
\*  [AND c.deck_id = ?]: the ids of the selected cards
Candidates(user, deckId) ==
    {c \in DOMAIN cards :
        /\ cards[c].deck_id \in DOMAIN decks
        /\ decks[cards[c].deck_id].user_id = user
        /\ deckId.type = "number" => cards[c].deck_id = deckId.v}

\* a selection by timestamp instead of by date
IsDueByInstant(c) == cards[c].due_date.t <= now

\* date(c.due_date) <= date('now')
IsDue(c) == DateOf(cards[c].due_date) <= Today

\* ORDER BY c.due_date ASC over the cards S (equal texts: in id order)
RECURSIVE OrderByDueDate(_)
OrderByDueDate(S) ==
    IF S = {} THEN << >>
    ELSE LET first == CHOOSE c \in S : \A o \in S \ {c} :
                          \/ TextBefore(cards[c].due_date, cards[o].due_date)
                          \/ cards[c].due_date = cards[o].due_date /\ c < o
         IN  <<first>> \o OrderByDueDate(S \ {first})

\* review.get("/due"): the ids of the cards of the response, in its order
DueCards(user, deckId) ==
    LET rows == OrderByDueDate({c \in Candidates(user, deckId) : IsDue(c)})
    IN  SubSeq(rows, 1, Min(Len(rows), DueLimit))

\* review.get("/due"): answers DueCards(user, deckId), writes nothing
GetDue(user, deckId) == UNCHANGED vars

\* stats whose new_cards counts only the new cards that are due
StatsNewDueOnly(user, deckId) ==
    LET S == Candidates(user, deckId)
    IN  [total_cards  |-> Cardinality(S),
         due_now      |-> Cardinality({c \in S : IsDue(c)}),
         new_cards    |-> Cardinality({c \in S :
                              cards[c].repetitions = 0 /\ IsDue(c)}),
         review_cards |-> Cardinality({c \in S :
                              cards[c].repetitions > 0 /\ IsDue(c)})]

\* review.get("/stats"): the stats object of the response
Stats(user, deckId) ==
    LET S == Candidates(user, deckId)
    IN  [total_cards  |-> Cardinality(S),
         due_now      |-> Cardinality({c \in S : IsDue(c)}),
         new_cards    |-> Cardinality({c \in S : cards[c].repetitions = 0}),
         review_cards |-> Cardinality({c \in S :
                              cards[c].repetitions > 0 /\ IsDue(c)})]

\* ORDER BY date over a set of dates
RECURSIVE AscendingDates(_)
AscendingDates(D) ==
    IF D = {} THEN << >>
    ELSE LET first == CHOOSE d \in D : \A e \in D : d <= e
         IN  <<first>> \o AscendingDates(D \ {first})

\* an upcoming array that starts today instead of tomorrow
UpcomingFromToday(user, deckId) ==
    LET S == {c \in Candidates(user, deckId) :
                 /\ DateOf(cards[c].due_date) >= Today
                 /\ DateOf(cards[c].due_date) <= Today + UpcomingDays}
        dates == AscendingDates({DateOf(cards[c].due_date) : c \in S})
    IN  [i \in 1 .. Len(dates) |->
            [date  |-> dates[i],
             count |-> Cardinality({c \in S :
                           DateOf(cards[c].due_date) = dates[i]})]]

\* review.get("/stats"): the upcoming array of the response
Upcoming(user, deckId) ==
    LET S == {c \in Candidates(user, deckId) :
                 /\ DateOf(cards[c].due_date) > Today
                 /\ DateOf(cards[c].due_date) <= Today + UpcomingDays}
        dates == AscendingDates({DateOf(cards[c].due_date) : c \in S})
    IN  [i \in 1 .. Len(dates) |->
            [date  |-> dates[i],
             count |-> Cardinality({c \in S :
                           DateOf(cards[c].due_date) = dates[i]})]]

\* review.get("/stats"): answers Stats and Upcoming, writes nothing
GetStats(user, deckId) == UNCHANGED vars

\* review.get("/history/:cardId"): the status of the response
HistoryStatus(user, cardId) ==
    IF ~OwnedCard(cardId, user) THEN 404 ELSE 200

\* the positions in review_history of the records of card cardId, newest
\* first (reviewed_at grows with the position)
RECURSIVE NewestFirst(_, _)
NewestFirst(cardId, n) ==
    IF n = 0 THEN << >>
    ELSE IF review_history[n].card_id = cardId
         THEN <<n>> \o NewestFirst(cardId, n - 1)
         ELSE NewestFirst(cardId, n - 1)

\* review.get("/history/:cardId"): the records of the response
History(user, cardId) ==
    LET rows == NewestFirst(cardId, Len(review_history))
    IN  IF HistoryStatus(user, cardId) = 200
        THEN SubSeq(rows, 1, Min(Len(rows), ReviewHistoryLimit))
        ELSE << >>

\* review.get("/history/:cardId"): answers History, writes nothing
GetHistory(user, cardId) == UNCHANGED vars

\* the sizes of the imports a client sends: nothing to import, one card,
\* a large file
ImportSizes == {0, 1, MaxImport}

Next ==
    \/ Tick
    \/ \E u \in ActiveUsers, name \in Texts : CreateDeck(u, name)
    \/ \E u \in ActiveUsers, d \in DeckIds, content \in Texts :
          CreateCard(u, d, content)
    \/ \E u \in ActiveUsers, c \in CardIds, content \in Texts :
          UpdateCard(u, c, content)
    \/ \E u \in ActiveUsers,
          c \in {Number(i) : i \in CardIds} \cup {Undefined},
          q \in {Number(i) : i \in SubmitQualities} \cup {Undefined} :
          Submit(u, c, q)
    \/ \E u \in ActiveUsers, d \in DeckIds, n \in ImportSizes : Import(u, d, n)
    \/ \E u \in ActiveUsers, f \in DeckFilters : GetDue(u, f)
    \/ \E u \in ActiveUsers, f \in DeckFilters : GetStats(u, f)
    \/ \E u \in ActiveUsers, c \in CardIds : GetHistory(u, c)
    \/ \E u \in ActiveUsers, c \in DeleteCardIds : DeleteCard(u, c)
    \/ \E u \in ActiveUsers, d \in DeleteDeckIds : DeleteDeck(u, d)

Spec == Init /\ [][Next]_vars

\* the same service followed over several days, with fewer rows
InitDue ==
    /\ decks = << >>
    /\ cards = << >>
    /\ review_history = << >>
    /\ now = 0
    /\ call = NoCall /\ result = NoResult /\ ncalls = 0 /\ origin = "any"
    /\ scope = "due"
    /\ requests = << >>

SpecDue == InitDue /\ [][Next]_vars

\* the same service used by a single user, with more rows
InitStats ==
    /\ decks = << >>
    /\ cards = << >>
    /\ review_history = << >>
    /\ now = 0
    /\ call = NoCall /\ result = NoResult /\ ncalls = 0 /\ origin = "any"
    /\ scope = "stats"
    /\ requests = << >>

SpecStats == InitStats /\ [][Next]_vars

\* the same service with deletions of decks and cards, with fewer rows
InitDelete ==
    /\ decks = << >>
    /\ cards = << >>
    /\ review_history = << >>
    /\ now = 0
    /\ call = NoCall /\ result = NoResult /\ ncalls = 0 /\ origin = "any"
    /\ scope = "delete"
    /\ requests = << >>

SpecDelete == InitDelete /\ [][Next]_vars

\* the same service with one large import
InitImport ==
    /\ decks = << >>
    /\ cards = << >>
    /\ review_history = << >>
    /\ now = 0
    /\ call = NoCall /\ result = NoResult /\ ncalls = 0 /\ origin = "any"
    /\ scope = "import"
    /\ requests = << >>

SpecImport == InitImport /\ [][Next]_vars

(***************************************************************************)
(* POST /submit with its await.  The handler is an async function with one *)
(* suspension point, await c.req.json(); what follows it (the validation,  *)
(* the SELECT, calculateSM2, the UPDATE and the INSERT, all synchronous    *)
(* bun:sqlite calls) runs to the response without yielding.  Handlers of   *)
(* several requests interleave at the suspension point.                    *)
(***************************************************************************)
\* the qualities of the requests in flight: 0, 2.5, 5
RaceQualities == {0, (5 * QScale) \div 2, 5 * QScale}

\* the request arrives: its handler starts and suspends at
\* await c.req.json()
Arrive(user, cardId, quality) ==
    /\ Len(requests) < MaxRequests
    /\ requests' = Append(requests,
           [user |-> user, cardId |-> cardId, quality |-> quality,
            card |-> NoCard, pc |-> "body", status |-> 0])
    /\ UNCHANGED dbvars
    /\ UNCHANGED <<call, result, ncalls, origin, scope>>

\* a handler that suspends once more between its SELECT and its UPDATE
SubmitStepSuspending(i) ==
    /\ i \in DOMAIN requests
    /\ LET r == requests[i]
           status == SubmitStatus(r.user, r.cardId, r.quality)
       IN  \/ /\ r.pc = "body" /\ status # 200
              /\ requests' = [requests EXCEPT ![i].pc = "done",
                                              ![i].status = status]
              /\ UNCHANGED <<cards, review_history>>
           \/ /\ r.pc = "body" /\ status = 200
              /\ requests' = [requests EXCEPT ![i].pc = "read",
                                              ![i].card = cards[r.cardId.v]]
              /\ UNCHANGED <<cards, review_history>>
           \/ /\ r.pc = "read"
              /\ r.cardId.v \in CardRows
              /\ LET res == calculateSM2(r.quality.v, r.card.ease_factor,
                                         r.card.interval, r.card.repetitions)
                 IN  /\ Room("review_history", 1)
                     /\ cards' = [cards EXCEPT ![r.cardId.v] =
                            [@ EXCEPT !.ease_factor = res.easeFactor,
                                      !.interval = res.interval,
                                      !.repetitions = res.repetitions,
                                      !.due_date = DueDate(res.interval)]]
                     /\ review_history' = Append(review_history,
                            [card_id |-> r.cardId.v, quality |-> r.quality.v,
                             ease_factor |-> res.easeFactor,
                             interval |-> res.interval])
                     /\ requests' = [requests EXCEPT ![i].pc = "done",
                                                     ![i].status = 200]
    /\ UNCHANGED <<decks, now>>
    /\ UNCHANGED <<call, result, ncalls, origin, scope>>

\* the body of request i has arrived: its handler resumes and runs to the
\* response (card is the row its SELECT returns)
SubmitStep(i) ==
    /\ i \in DOMAIN requests
    /\ requests[i].pc = "body"
    /\ LET r == requests[i]
           status == SubmitStatus(r.user, r.cardId, r.quality)
       IN  IF status = 200
           THEN LET card == cards[r.cardId.v]
                    res == calculateSM2(r.quality.v, card.ease_factor,
                                        card.interval, card.repetitions)
                IN  /\ Room("review_history", 1)
                    /\ cards' = [cards EXCEPT ![r.cardId.v] =
                           [@ EXCEPT !.ease_factor = res.easeFactor,
                                     !.interval = res.interval,
                                     !.repetitions = res.repetitions,
                                     !.due_date = DueDate(res.interval)]]
                    /\ review_history' = Append(review_history,
                           [card_id |-> r.cardId.v, quality |-> r.quality.v,
                            ease_factor |-> res.easeFactor,
                            interval |-> res.interval])
                    /\ requests' = [requests EXCEPT ![i].pc = "done",
                                                    ![i].status = 200,
                                                    ![i].card = card]
           ELSE /\ requests' = [requests EXCEPT ![i].pc = "done",
                                                ![i].status = status]
                /\ UNCHANGED <<cards, review_history>>
    /\ UNCHANGED <<decks, now>>
    /\ UNCHANGED <<call, result, ncalls, origin, scope>>

InitRace ==
    /\ decks = << >>
    /\ cards = << >>
    /\ review_history = << >>
    /\ now = 0
    /\ call = NoCall /\ result = NoResult /\ ncalls = 0 /\ origin = "any"
    /\ scope = "race"
    /\ requests = << >>

\* (the requests of a run are in flight within one clock tick)
NextRace ==
    \/ \E u \in ActiveUsers, name \in Texts : CreateDeck(u, name)
    \/ \E u \in ActiveUsers, d \in DeckIds, content \in Texts :
          CreateCard(u, d, content)
    \/ \E u \in ActiveUsers, c \in CardIds, q \in RaceQualities :
          Arrive(u, Number(c), Number(q))
    \/ \E i \in 1 .. MaxRequests : SubmitStep(i)

\* the service with the handlers of POST /submit interleaving
SpecRace == InitRace /\ [][NextRace]_vars


(***************************************************************************)
(* Vocabulary of the properties                                            *)
(***************************************************************************)
\* The quality a rating stands for: the nearest integer (a tie going up),
\* brought into 0..5.  Stated on its own, without Math.round.
NormalQuality(quality) ==
    CHOOSE k \in 0 .. 5 :
        /\ k = 0 \/ 2 * quality >= (2 * k - 1) * QScale
        /\ k = 5 \/ 2 * quality < (2 * k + 1) * QScale

\* the SM-2 ease-factor increments, in hundredths, for quality 0..5
EaseTable == <<-80, -54, -32, -14, 0, 10>>

Returned == result # NoResult

\* the qualities of the reviews recorded for card c, oldest first
RECURSIVE QualitiesOf(_, _)
QualitiesOf(c, h) ==
    IF h = << >> THEN << >>
    ELSE IF Head(h).card_id = c
         THEN <<Head(h).quality>> \o QualitiesOf(c, Tail(h))
         ELSE QualitiesOf(c, Tail(h))

\* the number of reviews at the end of qs that were successful (quality >= 3)
RECURSIVE TrailingSuccesses(_)
TrailingSuccesses(qs) ==
    IF qs = << >> THEN 0
    ELSE IF NormalQuality(qs[Len(qs)]) < 3 THEN 0
    ELSE 1 + TrailingSuccesses(SubSeq(qs, 1, Len(qs) - 1))

(***************************************************************************)
(* C1: a failed recall (the quality rounds and clamps to 0, 1 or 2) resets *)
(* the card whatever its prior state: repetitions = 0 and interval = 1.    *)
(***************************************************************************)
C1_FailedRecallResets ==
    (Returned /\ NormalQuality(call.quality) < 3)
        => (result.repetitions = 0 /\ result.interval = 1)

\* calculateSM2(2, 2.5, 10, 3) has returned repetitions 0, interval 1
C1_Witness ==
    /\ Returned
    /\ call.quality = 2 * QScale
    /\ call.easeFactor = 250 /\ call.interval = 10 /\ call.repetitions = 3
    /\ result.repetitions = 0 /\ result.interval = 1

(***************************************************************************)
(* C2: a successful recall (clamped quality >= 3) of a card with prior     *)
(* repetitions = 0 gives interval = 1 and repetitions = 1, whatever the    *)
(* prior interval and ease factor.                                         *)
(***************************************************************************)
C2_FirstSuccess ==
    (Returned /\ NormalQuality(call.quality) >= 3 /\ call.repetitions = 0)
        => (result.interval = 1 /\ result.repetitions = 1)

\* a first success on a card whose prior interval is not the default 0
C2_Witness ==
    /\ Returned
    /\ call.quality = 4 * QScale
    /\ call.repetitions = 0 /\ call.interval = 9 /\ call.easeFactor = 180
    /\ result.interval = 1 /\ result.repetitions = 1

(***************************************************************************)
(* C3: a successful recall of a card with prior repetitions = 1 gives      *)
(* interval = 6 and repetitions = 2, whatever the prior interval and ease  *)
(* factor.                                                                 *)
(***************************************************************************)
C3_SecondSuccess ==
    (Returned /\ NormalQuality(call.quality) >= 3 /\ call.repetitions = 1)
        => (result.interval = 6 /\ result.repetitions = 2)

\* a second success on a card whose prior interval is not 1
C3_Witness ==
    /\ Returned
    /\ call.quality = 3 * QScale
    /\ call.repetitions = 1 /\ call.interval = 4 /\ call.easeFactor = 250
    /\ result.interval = 6 /\ result.repetitions = 2

(***************************************************************************)
(* C4: a successful recall of a card with prior repetitions >= 2 gives     *)
(* repetitions = prior + 1 and interval = round(prior interval x PRIOR     *)
(* ease factor): the integer n with n - 1/2 <= interval x ease < n + 1/2.  *)
(* The ease factor this call computes is not the one used.                 *)
(***************************************************************************)
C4_LaterSuccess ==
    (Returned /\ NormalQuality(call.quality) >= 3 /\ call.repetitions >= 2)
        => /\ result.repetitions = call.repetitions + 1
           /\ 100 * result.interval - 50 <= call.interval * call.easeFactor
           /\ call.interval * call.easeFactor < 100 * result.interval + 50

\* calculateSM2(5, 2.5, 6, 2): 15 = round(6 x 2.5), not 16 = round(6 x 2.6)
C4_Witness ==
    /\ Returned
    /\ call.quality = 5 * QScale
    /\ call.repetitions = 2 /\ call.interval = 6 /\ call.easeFactor = 250
    /\ result.interval = 15 /\ result.repetitions = 3
    /\ result.easeFactor = 260

(***************************************************************************)
(* C5: in the failed and in the successful branch alike, the new ease      *)
(* factor is max(1.3, prior ease factor + d(q)) for the clamped quality q, *)
(* with d(0..5) = -0.80, -0.54, -0.32, -0.14, 0.00, +0.10.                 *)
(***************************************************************************)
C5_EaseUpdate ==
    Returned =>
        result.easeFactor =
            Max(130, call.easeFactor + EaseTable[NormalQuality(call.quality) + 1])

\* a failed recall (quality 2) lowers the ease factor 2.5 to 2.18
C5_Witness ==
    /\ Returned
    /\ call.quality = 2 * QScale
    /\ call.easeFactor = 250
    /\ result.repetitions = 0
    /\ result.easeFactor = 218

(***************************************************************************)
(* C6: the ease factor a call returns is never below 1.3, for any prior    *)
(* ease factor and any quality, alone or in a chain of calls that starts   *)
(* from a new card and feeds each result to the next call.                 *)
(***************************************************************************)
C6_EaseFloor == Returned => result.easeFactor >= 130

\* the same floor for the ease factor stored with every card of the service
CardEaseFloor == \A c \in DOMAIN cards : cards[c].ease_factor >= 130

\* the third review of a new card, where the formula alone would go below 1.3
C6_Witness ==
    /\ Returned
    /\ origin = "new"
    /\ ncalls = 3
    /\ call.easeFactor + EaseTable[NormalQuality(call.quality) + 1] < 130
    /\ result.easeFactor = 130

(***************************************************************************)
(* C7: for a fixed prior state the resulting ease factor is monotonically  *)
(* non-decreasing in the clamped quality: a rating that clamps lower never *)
(* gives a higher ease factor, one that clamps higher never a lower one.   *)
(***************************************************************************)
C7_EaseMonotone ==
    Returned =>
        \A other \in QualityInputs :
            LET r == calculateSM2(other, call.easeFactor, call.interval,
                                  call.repetitions)
            IN  /\ NormalQuality(other) <= NormalQuality(call.quality)
                    => r.easeFactor <= result.easeFactor
                /\ NormalQuality(other) >= NormalQuality(call.quality)
                    => r.easeFactor >= result.easeFactor

\* quality 3 on ease 2.5 lies strictly between quality 0 and quality 5
C7_Witness ==
    /\ Returned
    /\ call.quality = 3 * QScale
    /\ call.easeFactor = 250
    /\ result.easeFactor = 236
    /\ calculateSM2(0, 250, call.interval, call.repetitions).easeFactor = 170
    /\ calculateSM2(5 * QScale, 250, call.interval,
                    call.repetitions).easeFactor = 260

(***************************************************************************)
(* C8: calculateSM2 returns a result for every rating, and a rating below  *)
(* 0 gives exactly the result of rating 0, a rating above 5 exactly the    *)
(* result of rating 5 (ease factor, interval and repetitions).             *)
(***************************************************************************)
C8_QualityClamped ==
    Returned =>
        /\ result.easeFactor \in Nat
        /\ result.interval \in Nat
        /\ result.repetitions \in Nat
        /\ call.quality < 0 =>
              result = calculateSM2(0, call.easeFactor, call.interval,
                                    call.repetitions)
        /\ call.quality > 5 * QScale =>
              result = calculateSM2(5 * QScale, call.easeFactor,
                                    call.interval, call.repetitions)

\* rating -1 on a card with ease 3.0: what rating 0 gives (ease 2.2)
C8_Witness ==
    /\ Returned
    /\ call.quality = -QScale
    /\ call.easeFactor = 300 /\ call.repetitions = 2
    /\ result.easeFactor = 220 /\ result.repetitions = 0

(***************************************************************************)
(* C9: after any sequence of accepted reviews, a card's repetitions is the *)
(* number of its most recent consecutive reviews with clamped quality >= 3 *)
(* (0 after a failed review, 0 with no review).                            *)
(***************************************************************************)
C9_RepetitionsCountSuccesses ==
    \A c \in DOMAIN cards :
        cards[c].repetitions =
            TrailingSuccesses(QualitiesOf(c, review_history))

\* a card failed once and then recalled twice: repetitions = 2
C9_Witness ==
    \E c \in DOMAIN cards :
        LET qs == QualitiesOf(c, review_history)
        IN  /\ Len(qs) = 3
            /\ NormalQuality(qs[1]) < 3
            /\ NormalQuality(qs[2]) >= 3
            /\ NormalQuality(qs[3]) >= 3
            /\ cards[c].repetitions = 2

(***************************************************************************)
(* C10: in every reachable state every card's repetitions and interval are *)
(* non-negative integers.                                                  *)
(***************************************************************************)
C10_NonNegative ==
    \A c \in DOMAIN cards :
        /\ cards[c].repetitions \in Nat
        /\ cards[c].interval \in Nat

\* a card that was edited, reviewed successfully and then failed
C10_Witness ==
    \E c \in DOMAIN cards :
        /\ cards[c].front = "b"
        /\ Len(QualitiesOf(c, review_history)) = 2
        /\ cards[c].repetitions = 0
        /\ cards[c].interval = 1

(***************************************************************************)
(* Vocabulary of the properties about the queries                          *)
(***************************************************************************)
\* the elements of a sequence
Range(f) == {f[i] : i \in DOMAIN f}

\* the first tick of the day after the current one
EndOfToday == (now \div TicksPerDay + 1) * TicksPerDay

\* the step is an accepted review of card c (such a step is not a
\* stuttering step, since it appends to review_history, and it leaves the
\* clock, the decks and the other cards alone)
AcceptedSubmit(c) ==
    /\ vars' # vars
    /\ now' = now /\ decks' = decks
    /\ DOMAIN cards' = DOMAIN cards
    /\ \A o \in DOMAIN cards \ {c} : cards'[o] = cards[o]
    /\ \E u \in Users, q \in SubmitQualities :
           /\ SubmitStatus(u, Number(c), Number(q)) = 200
           /\ Submit(u, Number(c), Number(q))

(***************************************************************************)
(* C11: every accepted review submit sets the card's due date to the       *)
(* submit instant plus the newly computed interval in days, which is       *)
(* strictly later than the submit instant; no other step (content edit,    *)
(* query, rejected submit, creation of other rows, passing of time)        *)
(* changes the due date of a card that exists after the step.              *)
(***************************************************************************)
C11_DueDateSetBySubmitOnly ==
    [][\A c \in DOMAIN cards :
          IF AcceptedSubmit(c)
          THEN /\ cards'[c].due_date.t = now + cards'[c].interval * TicksPerDay
               /\ cards'[c].due_date.t > now
          ELSE cards'[c] # NoCard =>
                  cards'[c].due_date = cards[c].due_date]_vars

\* a card reviewed twice at tick 1 (due 6 days later), edited, a tick later
C11_Witness ==
    \E c \in DOMAIN cards :
        /\ now = 2
        /\ cards[c].interval = 6
        /\ cards[c].due_date.t = 1 + 6 * TicksPerDay
        /\ cards[c].front = "b"

(***************************************************************************)
(* C12: GET /due selects by calendar date: a card of the caller is listed  *)
(* iff its due instant lies before the end of the current day (at any time *)
(* of the current day, earlier or later than now, or on an earlier day); a *)
(* card due on a later day is not listed.  (Stated for lists that the      *)
(* limit of 50 does not cut; a listed card is eligible in any case.)       *)
(***************************************************************************)
C12_EligibleByDate ==
    \A u \in Users : \A c \in DOMAIN cards :
        LET list == DueCards(u, Undefined)
        IN  OwnedCard(c, u) =>
               /\ c \in Range(list) => cards[c].due_date.t < EndOfToday
               /\ Len(list) < DueLimit =>
                     (c \in Range(list) <=> cards[c].due_date.t < EndOfToday)

\* the list holds a card due later today than now and one due the day before
C12_Witness ==
    \E u \in Users : \E c1, c2 \in Range(DueCards(u, Undefined)) :
        /\ cards[c1].due_date.t > now
        /\ cards[c2].due_date.t < Today * TicksPerDay

(***************************************************************************)
(* C13: the list of GET /due is in ascending due-instant order: of any two *)
(* cards in it the one listed first has a due instant <= that of the one   *)
(* listed later, whichever operation last wrote each due date.             *)
(***************************************************************************)
C13_DueListAscending ==
    \A u \in Users : \A f \in DeckFilters :
        LET list == DueCards(u, f)
        IN  \A i, j \in DOMAIN list :
               i < j => cards[list[i]].due_date.t <= cards[list[j]].due_date.t

(***************************************************************************)
(* C14: GET /due returns at most 50 cards; when more than 50 are eligible  *)
(* the returned ones are the 50 with the earliest due dates: no returned   *)
(* card is due later than an eligible card that was left out.              *)
(***************************************************************************)
C14_DueListEarliestFifty ==
    \A u \in Users : \A f \in DeckFilters :
        LET list == DueCards(u, f)
            eligible == {c \in Candidates(u, f) :
                            cards[c].due_date.t < EndOfToday}
        IN  /\ Len(list) <= 50
            /\ \A c \in Range(list) : \A o \in eligible \ Range(list) :
                   cards[c].due_date.t <= cards[o].due_date.t

\* the cards in decks of user u
CardsOf(u) == {c \in DOMAIN cards : OwnedCard(c, u)}

\* the cards whose due instant lies before the end of the current day
DueToday == {c \in DOMAIN cards : cards[c].due_date.t < EndOfToday}

(***************************************************************************)
(* C15: with a deckId filter naming a deck of the caller, GET /due returns *)
(* only due cards of that deck and GET /stats counts only cards of that    *)
(* deck; without the filter they cover the due cards / all cards of every  *)
(* deck of the caller.  (The lists are compared as sets where the limit of *)
(* 50 does not cut them.)                                                  *)
(***************************************************************************)
C15_DeckFilter ==
    \A u \in Users :
        /\ \A d \in DOMAIN decks :
              LET inDeck == {c \in CardsOf(u) : cards[c].deck_id = d}
                  list == DueCards(u, Number(d))
              IN  decks[d].user_id = u =>
                     /\ Range(list) \subseteq inDeck \cap DueToday
                     /\ Len(list) < 50 => Range(list) = inDeck \cap DueToday
                     /\ Stats(u, Number(d)).total_cards = Cardinality(inDeck)
        /\ LET list == DueCards(u, Undefined)
           IN  /\ Range(list) \subseteq CardsOf(u) \cap DueToday
               /\ Len(list) < 50 => Range(list) = CardsOf(u) \cap DueToday
               /\ Stats(u, Undefined).total_cards = Cardinality(CardsOf(u))

\* a user with a due card in each of two decks: the filter gives one of the
\* two cards, no filter gives both
C15_Witness ==
    \E u \in Users : \E d \in DOMAIN decks :
        /\ decks[d].user_id = u
        /\ Len(DueCards(u, Number(d))) = 1
        /\ Len(DueCards(u, Undefined)) = 2
        /\ Stats(u, Number(d)).total_cards = 1
        /\ Stats(u, Undefined).total_cards = 2

(***************************************************************************)
(* C16: GET /due and GET /stats for a user never return or count a card of *)
(* a deck owned by another user, whatever rows the other users have; when  *)
(* the deckId filter names a deck that is not the caller's, the list is    *)
(* empty and every count is zero.                                          *)
(***************************************************************************)
C16_OtherUsersCardsHidden ==
    \A u \in Users : \A f \in DeckFilters :
        LET mine == {c \in CardsOf(u) :
                        f.type = "number" => cards[c].deck_id = f.v}
            st == Stats(u, f)
            up == Upcoming(u, f)
        IN  /\ Range(DueCards(u, f)) \subseteq mine
            /\ st.total_cards <= Cardinality(mine)
            /\ st.due_now <= Cardinality(mine)
            /\ st.new_cards <= Cardinality(mine)
            /\ st.review_cards <= Cardinality(mine)
            /\ \A i \in DOMAIN up : up[i].count <= Cardinality(mine)
            /\ (f.type = "number" /\ ~verifyDeckOwnership(f.v, u)) =>
                  /\ DueCards(u, f) = << >>
                  /\ st = [total_cards |-> 0, due_now |-> 0,
                           new_cards |-> 0, review_cards |-> 0]
                  /\ up = << >>

\* both users have a due card; one asks for the other's deck and gets nothing
C16_Witness ==
    \E u, o \in Users : \E d \in DOMAIN decks :
        /\ u # o
        /\ decks[d].user_id = o
        /\ DueCards(o, Number(d)) # << >>
        /\ DueCards(u, Undefined) # << >>
        /\ DueCards(u, Number(d)) = << >>
        /\ Stats(u, Number(d)).total_cards = 0

\* the cards of user u that the deckId parameter f selects
Scoped(u, f) ==
    {c \in CardsOf(u) : f.type = "number" => cards[c].deck_id = f.v}

(***************************************************************************)
(* C17: GET /stats over the caller's (optionally deck-scoped) cards gives  *)
(* total_cards = the number of cards, due_now = the number of cards due    *)
(* before the end of today, new_cards = the number of cards with           *)
(* repetitions = 0 whether or not they are due, review_cards = the number  *)
(* of cards with repetitions > 0 that are due; with no cards all four are  *)
(* 0.                                                                      *)
(***************************************************************************)
C17_StatsCounts ==
    \A u \in Users : \A f \in DeckFilters :
        LET S == Scoped(u, f)
            st == Stats(u, f)
            new == {c \in S : cards[c].repetitions = 0}
        IN  /\ st.total_cards = Cardinality(S)
            /\ st.due_now = Cardinality(S \cap DueToday)
            /\ st.new_cards = Cardinality(new)
            /\ st.review_cards = Cardinality((S \ new) \cap DueToday)
            /\ S = {} => st = [total_cards |-> 0, due_now |-> 0,
                               new_cards |-> 0, review_cards |-> 0]

\* three cards: a new one that is due, a new one that is not due (failed
\* today), and a reviewed one that has become due
C17_Witness ==
    \E u \in Users :
        /\ Stats(u, Undefined) = [total_cards |-> 3, due_now |-> 2,
                                  new_cards |-> 2, review_cards |-> 1]
        /\ \E c \in CardsOf(u) :
               cards[c].repetitions = 0 /\ cards[c].due_date.t >= EndOfToday

RECURSIVE RecordsOf(_, _)
RecordsOf(c, h) ==
    IF h = << >> THEN << >>
    ELSE IF Head(h).card_id = c
         THEN <<Head(h)>> \o RecordsOf(c, Tail(h))
         ELSE RecordsOf(c, Tail(h))

(***************************************************************************)
(* C19: every accepted review submit appends exactly one review-history    *)
(* record for that card, holding the card's ease factor and interval as    *)
(* they are after the update; no other step (a rejected submit among them) *)
(* appends a record, and no step changes an existing record: a record goes *)
(* only together with its card.  Hence a card has as many records as       *)
(* accepted reviews.                                                       *)
(***************************************************************************)
C19_OneRecordPerReview ==
    [][/\ Len(review_history') >= Len(review_history)
       /\ \A i \in DOMAIN review_history :
             \/ review_history'[i] = review_history[i]
             \/ /\ review_history'[i] = NoReview
                /\ cards'[review_history[i].card_id] = NoCard
       /\ \A c \in DOMAIN cards :
             LET old == RecordsOf(c, review_history)
                 new == RecordsOf(c, review_history')
             IN  IF AcceptedSubmit(c)
                 THEN /\ Len(review_history') = Len(review_history) + 1
                      /\ Len(new) = Len(old) + 1
                      /\ new[Len(new)].ease_factor = cards'[c].ease_factor
                      /\ new[Len(new)].interval = cards'[c].interval
                 ELSE cards'[c] # NoCard => new = old]_vars

\* a card reviewed twice: the first record keeps what the first review
\* wrote, the second holds what the card holds now
C19_Witness ==
    \E c \in DOMAIN cards :
        LET rs == RecordsOf(c, review_history)
        IN  /\ Len(rs) = 2
            /\ rs[1].interval = 1 /\ rs[1].ease_factor = 260
            /\ rs[2].interval = 6 /\ rs[2].ease_factor = 270
            /\ cards[c].interval = 6 /\ cards[c].ease_factor = 270

(***************************************************************************)
(* C20: the quality stored in every review-history record is the clamped   *)
(* quality the scheduler used: an integer in 0..5, for every quality the   *)
(* submit endpoint accepts (non-integer values between 0 and 5 among       *)
(* them).                                                                  *)
(***************************************************************************)
C20_StoredQualityClamped ==
    \A i \in DOMAIN review_history :
        review_history[i].quality \in {k * QScale : k \in 0 .. 5}

\* the cardId and quality fields a submit request may carry
SubmitCardIds == {Number(i) : i \in CardIds} \cup {Undefined}
SubmitQualityFields == {Number(i) : i \in SubmitQualities} \cup {Undefined}

\* handling the request POST /submit {cardId, quality} of user u can change
\* a card or the review history
SubmitCanWrite(u, cardId, quality) ==
    ENABLED (/\ Submit(u, cardId, quality)
             /\ <<cards, review_history>>' # <<cards, review_history>>)

(***************************************************************************)
(* C21: POST /submit with a missing or non-numeric cardId or quality is    *)
(* rejected with status 400 'cardId and quality are required', and with a  *)
(* numeric quality below 0 or above 5 with status 400 'Quality must be     *)
(* between 0 and 5'; in both cases no card (memory state, due date) and no *)
(* review-history record is changed.                                       *)
(***************************************************************************)
C21_InvalidSubmitRejected ==
    \A u \in Users : \A cardId \in SubmitCardIds :
      \A quality \in SubmitQualityFields :
        LET missing == cardId.type # "number" \/ quality.type # "number"
            outside == /\ ~missing
                       /\ quality.v < 0 \/ quality.v > 5 * QScale
        IN  /\ missing =>
                  /\ SubmitStatus(u, cardId, quality) = 400
                  /\ SubmitError(u, cardId, quality) =
                        "cardId and quality are required"
            /\ outside =>
                  /\ SubmitStatus(u, cardId, quality) = 400
                  /\ SubmitError(u, cardId, quality) =
                        "Quality must be between 0 and 5"
            /\ (missing \/ outside) => ~SubmitCanWrite(u, cardId, quality)

\* a reviewed card whose owner can review it again, but not with quality
\* 5.25, -1 or none
C21_Witness ==
    \E u \in Users : \E c \in CardRows :
        /\ RecordsOf(c, review_history) # << >>
        /\ SubmitCanWrite(u, Number(c), Number(5 * QScale))
        /\ SubmitStatus(u, Number(c), Number(5 * QScale + 1)) = 400
        /\ SubmitStatus(u, Number(c), Number(-QScale)) = 400
        /\ SubmitStatus(u, Number(c), Undefined) = 400
        /\ ~SubmitCanWrite(u, Number(c), Number(5 * QScale + 1))

\* card c exists and lies in a deck of user u
CardOfUser(c, u) ==
    /\ c \in CardRows
    /\ \E d \in DeckRows : cards[c].deck_id = d /\ decks[d].user_id = u

(***************************************************************************)
(* C22: POST /submit (with a well-formed body) and GET /history/:cardId    *)
(* for a card that does not exist, or that lies in a deck of another user, *)
(* answer 404 'Card not found'; no card and no history record is created   *)
(* or changed, and no history is shown.                                    *)
(***************************************************************************)
C22_UnknownCardNotFound ==
    \A u \in Users : \A c \in CardIds :
      \A q \in {x \in SubmitQualities : x >= 0 /\ x <= 5 * QScale} :
        ~CardOfUser(c, u) =>
            /\ SubmitStatus(u, Number(c), Number(q)) = 404
            /\ SubmitError(u, Number(c), Number(q)) = "Card not found"
            /\ ~SubmitCanWrite(u, Number(c), Number(q))
            /\ HistoryStatus(u, c) = 404
            /\ History(u, c) = << >>
            /\ ~ENABLED (GetHistory(u, c) /\ dbvars' # dbvars)

\* a reviewed card that its owner may review again and another user may
\* not, beside a card that was deleted
C22_Witness ==
    \E u, o \in Users : \E c \in CardRows : \E gone \in DOMAIN cards :
        /\ u # o
        /\ CardOfUser(c, u)
        /\ RecordsOf(c, review_history) # << >>
        /\ SubmitStatus(u, Number(c), Number(5 * QScale)) = 200
        /\ SubmitStatus(o, Number(c), Number(5 * QScale)) = 404
        /\ HistoryStatus(o, c) = 404
        /\ cards[gone] = NoCard
        /\ SubmitStatus(u, Number(gone), Number(5 * QScale)) = 404

\* the scheduling fields of a card row
Scheduling(row) ==
    <<row.ease_factor, row.interval, row.repetitions, row.due_date>>

(***************************************************************************)
(* C23: updating a card's content (PUT /cards/:id) leaves its ease factor, *)
(* interval, repetitions and due date unchanged, and the accepted review   *)
(* submit is the only step that changes these fields of a card that exists *)
(* before and after the step.                                              *)
(***************************************************************************)
C23_OnlySubmitWritesScheduling ==
    [][\A c \in CardRows :
          Scheduling(cards'[c]) # Scheduling(cards[c]) =>
              /\ ~\E u \in Users, content \in Contents :
                     UpdateCard(u, c, content)
              /\ cards'[c] = NoCard \/ AcceptedSubmit(c)]_vars

\* a reviewed card (ease 2.6, due a day after tick 1) whose text was edited
\* or can be edited now
C23_Witness ==
    \E u \in Users : \E c \in CardRows :
        /\ cards[c].repetitions = 1 /\ cards[c].ease_factor = 260
        /\ cards[c].due_date = [t |-> 1 + TicksPerDay, fmt |-> "iso"]
        /\ cards[c].front = "b"
        /\ ENABLED (UpdateCard(u, c, "a") /\ cards' # cards)

\* the cards of user u that have no review-history record
NeverReviewed(u) ==
    {c \in CardsOf(u) :
        \A i \in DOMAIN review_history : review_history[i].card_id # c}

\* Every card that was not reviewed yet holds the default memory state and
\* a due date written by datetime('now') that is not later than now; the
\* due list of its owner (as a whole and for its deck) holds it, or, with
\* capped, holds it unless the list is full; and the owner's stats count it
\* as due and as new.
NewCardsDue(capped) ==
    \A u \in Users :
        LET new == NeverReviewed(u)
            all == DueCards(u, Undefined)
        IN  /\ \A c \in new :
                  /\ cards[c].ease_factor = 250
                  /\ cards[c].interval = 0
                  /\ cards[c].repetitions = 0
                  /\ cards[c].due_date.fmt = "sql"
                  /\ cards[c].due_date.t <= now
            /\ \/ new \subseteq Range(all)
               \/ capped /\ Len(all) = DueLimit
            /\ \A d \in DOMAIN decks :
                  LET deck == DueCards(u, Number(d))
                  IN  decks[d].user_id = u =>
                         \/ {c \in new : cards[c].deck_id = d}
                                \subseteq Range(deck)
                         \/ capped /\ Len(deck) = DueLimit
            /\ Stats(u, Undefined).due_now >= Cardinality(new)
            /\ Stats(u, Undefined).new_cards >= Cardinality(new)

\* every card the step inserts lies in a deck of a user, holds the default
\* memory state and is due at the instant of the step
InsertsNewCards ==
    \A c \in DOMAIN cards' \ DOMAIN cards :
        /\ now' = now
        /\ cards'[c].ease_factor = 250
        /\ cards'[c].interval = 0
        /\ cards'[c].repetitions = 0
        /\ cards'[c].due_date.t = now
        /\ \E d \in DeckRows :
              cards'[c].deck_id = d /\ decks'[d].user_id \in Users

(***************************************************************************)
(* C24 as amended: every card created through card creation or import      *)
(* starts with ease factor 2.5, interval 0, repetitions 0 and a due date    *)
(* equal to its creation instant, so on the day it is created (and until    *)
(* its first review) it is eligible by date, is in its owner's due list     *)
(* unless the cap of 50 cuts the list, and is counted as a due card and as  *)
(* a new card.                                                              *)
(***************************************************************************)
C24_NewCardStartsDueCapped ==
    [][InsertsNewCards]_vars /\ []NewCardsDue(TRUE)

(***************************************************************************)
(* C24 as stated: every card created through card creation or import       *)
(* starts with ease factor 2.5, interval 0, repetitions 0 and a due date    *)
(* equal to its creation instant, so it is in its owner's due set on the    *)
(* day it is created and is counted as a new card.                          *)
(***************************************************************************)
C24_NewCardStartsInDueSet ==
    [][InsertsNewCards]_vars /\ []NewCardsDue(FALSE)

\* a card created and 50 cards imported in the same tick: all 51 are new
\* and due, the list holds 50 of them
C24_Witness ==
    \E u \in Users :
        /\ Len(cards) = MaxImport + 1
        /\ \A c \in DOMAIN cards :
              /\ OwnedCard(c, u)
              /\ cards[c].due_date = SqlNow
              /\ cards[c].repetitions = 0
        /\ Len(DueCards(u, Undefined)) = DueLimit
        /\ Len(cards) \notin Range(DueCards(u, Undefined))
        /\ Stats(u, Undefined).new_cards = MaxImport + 1

(***************************************************************************)
(* C25: after any sequence of operations no review-history record refers   *)
(* to a card that no longer exists and no card refers to a deck that no     *)
(* longer exists: a deleted card is gone with its memory state and all its  *)
(* history records, and a deleted deck with all its cards and their        *)
(* history.                                                                *)
(***************************************************************************)
C25_NoDanglingReferences ==
    /\ \A i \in ReviewRows : review_history[i].card_id \in CardRows
    /\ \A c \in CardRows : cards[c].deck_id \in DeckRows
    /\ \A d \in DOMAIN decks \ DeckRows :
          /\ \A c \in DOMAIN cards : cards[c].deck_id # d
          /\ \A u \in Users : Stats(u, Number(d)).total_cards = 0
    /\ \A c \in DOMAIN cards \ CardRows :
          /\ \A i \in DOMAIN review_history : review_history[i].card_id # c
          /\ \A u \in Users : History(u, c) = << >>

\* a deck deleted with its reviewed card, beside a deck that is still there
C25_Witness ==
    \E d, e \in DOMAIN decks : \E c \in DOMAIN cards :
      \E i \in DOMAIN review_history :
        /\ decks[d] = NoDeck /\ decks[e] # NoDeck
        /\ cards[c] = NoCard
        /\ review_history[i] = NoReview

\* the memory state of a card row, as calculateSM2 returns it
MemoryState(row) ==
    [easeFactor |-> row.ease_factor, interval |-> row.interval,
     repetitions |-> row.repetitions]

\* the memory state after the reviews with the qualities qs, one after the
\* other, starting from the memory state m
RECURSIVE Replay(_, _)
Replay(m, qs) ==
    IF qs = << >> THEN m
    ELSE Replay(calculateSM2(Head(qs), m.easeFactor, m.interval,
                             m.repetitions), Tail(qs))

\* the requests for card c that were answered 200
Answered(c) ==
    {i \in DOMAIN requests :
        /\ requests[i].pc = "done" /\ requests[i].status = 200
        /\ requests[i].cardId.v = c}

\* the orders in which the requests D can be taken one after the other
Orders(D) ==
    {f \in [1 .. Cardinality(D) -> D] :
        \A j, k \in 1 .. Cardinality(D) : j # k => f[j] # f[k]}

(***************************************************************************)
(* C26: when review submits for the same card are handled concurrently     *)
(* (their handlers interleaved at the await), no update is lost: the       *)
(* card's ease factor, interval and repetitions are those of applying the  *)
(* answered reviews one after the other, in some order, to the new card,   *)
(* and the history holds exactly one record per answered review, in that   *)
(* order.                                                                  *)
(***************************************************************************)
C26_NoLostUpdate ==
    \A c \in CardRows :
        \E f \in Orders(Answered(c)) :
            LET qs == [k \in DOMAIN f |-> requests[f[k]].quality.v]
                rs == RecordsOf(c, review_history)
            IN  /\ MemoryState(cards[c]) =
                      Replay(MemoryState(NewCard(cards[c].deck_id, "a")), qs)
                /\ Len(rs) = Len(qs)
                /\ \A k \in DOMAIN rs : rs[k].quality = qs[k]

\* two requests for one new card were in flight together (the one that
\* arrived second, with quality 0, was answered first): the card holds the
\* state after quality 0 and then quality 5
C26_Witness ==
    \E c \in CardRows :
        LET rs == RecordsOf(c, review_history)
        IN  /\ Len(requests) = 2
            /\ Answered(c) = {1, 2}
            /\ requests[1].quality.v = 5 * QScale
            /\ requests[2].quality.v = 0
            /\ Len(rs) = 2
            /\ rs[1].quality = 0 /\ rs[2].quality = 5 * QScale
            /\ MemoryState(cards[c]) =
                  [easeFactor |-> 180, interval |-> 1, repetitions |-> 1]

(***************************************************************************)
(* C27: for every card state and each choice offered in review mode        *)
(* (quality 3 'Hard', 5 'Good', 1 'Again'), the next interval projected by *)
(* the frontend's calculateNextInterval equals the interval the server's   *)
(* calculateSM2 stores when that choice is submitted.  (Checked for the    *)
(* card states that reviews lead to from a new card.)                      *)
(***************************************************************************)
C27_ProjectedIntervalIsStored ==
    \A choice \in ReviewChoices :
        (origin = "new" /\ Returned /\ call.quality = choice * QScale) =>
            calculateNextInterval(call.easeFactor, call.interval,
                                  call.repetitions, choice) = result.interval

\* interval and repetitions of the memory state m are tied together (and
\* the ease factor is not below its floor, C6)
Tied(m) ==
    /\ m.easeFactor >= 130
    /\ m.repetitions >= 0
    /\ m.repetitions = 0 => m.interval \in {0, 1}
    /\ m.repetitions = 1 => m.interval = 1
    /\ m.repetitions = 2 => m.interval = 6
    /\ m.repetitions >= 3 => m.interval >= 8

(***************************************************************************)
(* C28: in every state reachable from card creation by accepted reviews,   *)
(* interval and repetitions are tied together: repetitions = 0 implies     *)
(* interval 0 (never reviewed) or 1; repetitions = 1 implies interval 1;   *)
(* repetitions = 2 implies interval 6; repetitions >= 3 implies interval   *)
(* >= 8, and each further successful review strictly increases the         *)
(* interval.  Stated as an induction: a new card is tied, and a review of  *)
(* a tied card returns a tied state; a successful review of a card with    *)
(* repetitions >= 2 returns a longer interval.                             *)
(***************************************************************************)
C28_IntervalTiedToRepetitions ==
    /\ Tied([easeFactor |-> DefaultEaseFactor, interval |-> DefaultInterval,
             repetitions |-> DefaultRepetitions])
    /\ (Returned /\ Tied(call)) =>
          /\ Tied(result)
          /\ (NormalQuality(call.quality) >= 3 /\ call.repetitions >= 2) =>
                result.interval > call.interval

\* a card at the floor (1.3) with interval 6 and repetitions 2 (after two
\* failed and two successful reviews) was reviewed with quality 3 and has
\* interval 8, repetitions 3
C28_Witness ==
    /\ Returned
    /\ call = [quality |-> 3 * QScale, easeFactor |-> 130, interval |-> 6,
               repetitions |-> 2]
    /\ result.interval = 8 /\ result.repetitions = 3

\* the cards that were reviewed: they have a review-history record
Reviewed == {c \in CardRows : \E i \in ReviewRows : review_history[i].card_id = c}

\* an accepted review on day D (the current day) yields an interval n >= 1
\* and a due date on day D + n
ReviewSetsDueDay ==
    \A c \in DOMAIN cards :
        AcceptedSubmit(c) =>
            /\ cards'[c].interval >= 1
            /\ DateOf(cards'[c].due_date) = Today + cards'[c].interval
            /\ c \in Reviewed'

\* a reviewed card is absent from its owner's due list (whole or of its
\* deck) on every day before the day its due date names, and is in the list
\* from that day on unless the list is full
ReviewedDueFromDueDay ==
    \A u \in Users : \A c \in Reviewed \cap CardsOf(u) :
        \A f \in {Undefined, Number(cards[c].deck_id)} :
            LET list == DueCards(u, f)
            IN  IF Today < DateOf(cards[c].due_date)
                THEN c \notin Range(list)
                ELSE c \in Range(list) \/ Len(list) = DueLimit

(***************************************************************************)
(* C29: after an accepted review on day D that yields interval n (n >= 1   *)
(* for every quality), the card is absent from its owner's due set for the *)
(* rest of day D and on every day before D + n, and is in the due set      *)
(* (subject to the 50-card cap) on every day from D + n on until its next  *)
(* accepted review.  (The review writes a due date on day D + n, which     *)
(* stays until the next accepted review by C11; the due set follows the    *)
(* day of the due date.)                                                   *)
(***************************************************************************)
C29_AbsentUntilDueDay ==
    [][ReviewSetsDueDay]_vars /\ []ReviewedDueFromDueDay

\* a card reviewed on day 0 with interval 1: it was absent from the due
\* list for the rest of day 0 and is in it now, on day 1, before the time
\* of day of its due date
C29_Witness ==
    \E u \in Users : \E c \in Reviewed :
        /\ cards[c].interval = 1
        /\ cards[c].due_date.t = 1 + TicksPerDay
        /\ now = TicksPerDay
        /\ c \in Range(DueCards(u, Undefined))

(***************************************************************************)
(* C30: after any sequence of operations, every card that has at least one *)
(* review-history record has the ease factor and the interval of its most  *)
(* recently appended record: the card update and the history insert of a   *)
(* submit are never observed one without the other.                        *)
(***************************************************************************)
C30_CardMatchesLastRecord ==
    \A c \in CardRows :
        LET rs == RecordsOf(c, review_history)
        IN  rs # << >> =>
               /\ cards[c].ease_factor = rs[Len(rs)].ease_factor
               /\ cards[c].interval = rs[Len(rs)].interval

\* a card with the text b, reviewed twice: it holds what its second record
\* holds, not what its first record holds
C30_Witness ==
    \E c \in CardRows :
        LET rs == RecordsOf(c, review_history)
        IN  /\ Len(rs) = 2
            /\ rs[1].ease_factor # rs[2].ease_factor
            /\ rs[1].interval # rs[2].interval
            /\ cards[c].ease_factor = rs[2].ease_factor
            /\ cards[c].interval = rs[2].interval
            /\ cards[c].front = "b"

====
